---- MODULE Spec2Model ----
(***************************************************************************)
(* cursor-setup (src/src/cursor_setup/main.py): template registry merge,   *)
(* cache store, content resolution and the .cursorrules installer,         *)
(* modelled one step of one command invocation at a time.                  *)
(*                                                                         *)
(* Texts are sequences of code points, so that Python truthiness of a str  *)
(* (non-empty) is computed, not assumed.  Files are records               *)
(* [st, text]; st says what the operating system would answer.             *)
(***************************************************************************)
EXTENDS Integers, Sequences, FiniteSets, TLC

\* Number of distinct code points used to build non-empty texts.
MaxChar == 2

\* Longest "templates" JSON array drawn as a remote document.
MaxItems == 2
MaxOther == 2

Texts == {<<>>} \cup {<<c>> : c \in 1..MaxChar}

\* Template names a user may type / keys of the registries.
Names == {"python", "react"}

(***************************************************************************)
(* Python values                                                           *)
(***************************************************************************)

\* Optional[str]
None == [some |-> FALSE, text |-> <<>>]
Some(t) == [some |-> TRUE, text |-> t]

\* bool(x) of an Optional[str]: None and "" are falsy (lines 311, 325, 377).
Truthy(x) == x.some /\ Len(x.text) > 0

\* A registry value.  isdict = FALSE is a JSON value that is not an object.
Desc(isdict, hasUrl, hasContent, c) ==
    [isdict |-> isdict, hasUrl |-> hasUrl, url |-> "U1",
     hasContent |-> hasContent, content |-> c]
Inline(c) == Desc(TRUE, FALSE, TRUE, c)
Remote == Desc(TRUE, TRUE, FALSE, <<>>)
BothD(c) == Desc(TRUE, TRUE, TRUE, c)
NeitherD == Desc(TRUE, FALSE, FALSE, <<>>)
ScalarD == Desc(FALSE, FALSE, FALSE, <<>>)

Descs == {Inline(c) : c \in Texts} \cup {Remote, BothD(<<1>>), NeitherD, ScalarD}

\* dict: a function whose DOMAIN is a subset of Names
EmptyDict == [k \in {} |-> ScalarD]
Dicts(V) == UNION {[D -> V] : D \in SUBSET Names}

(***************************************************************************)
(* Files                                                                   *)
(***************************************************************************)
Absent == [st |-> "absent", text |-> <<>>]
TextFile(t) == [st |-> "text", text |-> t]
\* exists, but read_text raises OSError (permissions, I/O error)
Unreadable == [st |-> "ioerr", text |-> <<>>]
\* exists, but its bytes are not UTF-8: read_text raises UnicodeDecodeError
Undecodable == [st |-> "undecodable", text |-> <<>>]

CacheFiles == {Absent, Unreadable, Undecodable} \cup {TextFile(t) : t \in Texts}
DestFiles == {Absent} \cup {TextFile(t) : t \in Texts}

(***************************************************************************)
(* Responses of the registry fetch (requests.get + raise_for_status +      *)
(* response.json()).                                                       *)
(***************************************************************************)
Resp(kind, shape, t, map, items, slen) ==
    [kind |-> kind, shape |-> shape, t |-> t, map |-> map, items |-> items,
     slen |-> slen]

NoResp == Resp("none", "none", "none", EmptyDict, <<>>, 0)
\* requests.get raised (ConnectionError, Timeout)
NetErr == Resp("neterr", "none", "none", EmptyDict, <<>>, 0)
\* raise_for_status raised HTTPError
BadStatus == Resp("status", "none", "none", EmptyDict, <<>>, 0)
\* response.json() raised (a ValueError)
BadJson == Resp("badjson", "none", "none", EmptyDict, <<>>, 0)
\* valid JSON that is not an object
JsonNotDict == Resp("json", "notdict", "none", EmptyDict, <<>>, 0)
\* a JSON object without the key "templates"
JsonNoKey == Resp("json", "nokey", "none", EmptyDict, <<>>, 0)
\* {"templates": {...}}
JsonDict(m) == Resp("json", "has", "dict", m, <<>>, 0)
\* {"templates": [...]}
JsonList(items) == Resp("json", "has", "list", EmptyDict, items, 0)
\* {"templates": "..."} with a string of n characters
JsonStr(n) == Resp("json", "has", "str", EmptyDict, <<>>, n)
\* {"templates": 5}, null, true
JsonScalar == Resp("json", "has", "scalar", EmptyDict, <<>>, 0)

\* Elements of a JSON array given to dict.update
Item(e, k, v) == [e |-> e, k |-> k, v |-> v]
\* [k, v]
Pair(k, v) == Item("pair", k, v)
\* an array whose length is not 2
BadLen == Item("badlen", "python", ScalarD)
\* a number or null: not iterable
NonIter == Item("noniter", "python", ScalarD)
\* [[...], v]: the key is not hashable
Unhashable == Item("unhashable", "python", ScalarD)

Items == {Pair(k, Remote) : k \in Names} \cup {BadLen, NonIter, Unhashable}
ItemSeqs == UNION {[1..n -> Items] : n \in 0..MaxItems}

Responses ==
    {NetErr, BadStatus, BadJson, JsonNotDict, JsonNoKey, JsonScalar,
     JsonStr(0), JsonStr(1)}
    \cup {JsonDict(m) : m \in Dicts(Descs)}
    \cup {JsonList(s) : s \in ItemSeqs}

(***************************************************************************)
(* dict.update                                                             *)
(***************************************************************************)
Result(d, exc) == [d |-> d, exc |-> exc]

\* Mutant of Update: a key already present keeps its value.
UpdateLocalWins(d, other) ==
    [k \in DOMAIN d \cup DOMAIN other |->
        IF k \in DOMAIN d THEN d[k] ELSE other[k]]

\* d.update(other) for a mapping: every key of other is inserted or replaced
Update(d, other) ==
    [k \in DOMAIN d \cup DOMAIN other |->
        IF k \in DOMAIN other THEN other[k] ELSE d[k]]

\* d.update(seq): the elements are inserted one at a time, and the first bad
\* element raises with the earlier ones already inserted.
RECURSIVE UpdateSeq(_, _)
UpdateSeq(d, items) ==
    IF items = <<>> THEN Result(d, "none")
    ELSE LET it == Head(items) IN
         CASE it.e = "pair" -> UpdateSeq(Update(d, (it.k :> it.v)), Tail(items))
           [] it.e = "badlen" -> Result(d, "ValueError")
           [] OTHER -> Result(d, "TypeError")

\* all_templates.update(remote_templates), line 117
dict_update(d, r) ==
    CASE r.t = "dict" -> Result(Update(d, r.map), "none")
      [] r.t = "list" -> UpdateSeq(d, r.items)
      [] r.t = "str" -> IF r.slen = 0 THEN Result(d, "none")
                        ELSE Result(d, "ValueError")
      [] OTHER -> Result(d, "TypeError")

\* get_registry(), lines 94-124, on the bundled TEMPLATES T and the response r.
\* exc is the exception that leaves the function ("none": it returns d).
get_registry(T, r) ==
    IF r.kind \in {"neterr", "status", "badjson"} THEN Result(T, "none")
    ELSE IF r.shape # "has" THEN Result(T, "none")
    ELSE LET u == dict_update(T, r) IN
         IF u.exc = "TypeError" THEN Result(T, "TypeError")
         ELSE Result(u.d, "none")

(***************************************************************************)
(* State                                                                   *)
(***************************************************************************)
VARIABLES
    TEMPLATES,        \* the bundled mapping imported at line 23
    cache_dir,        \* CACHE_DIR exists
    cache_files,      \* the file at get_cache_path(name), per name
    cursorrules,      \* the file Path.cwd() / CURSORRULES_FILENAME
    pc,               \* where the running command is
    cmd,              \* the command line of the running command
    resp,             \* what the registry fetch of this run answered
    all_templates,    \* local all_templates of install/show/list
    content,          \* local content of install/show
    cached_content,   \* local cached_content of install/show
    site,             \* which call of load_from_cache is running
    events,           \* the effects of this run, in order
    exit_code,        \* the process exit status, once pc = "done"
    outcome,          \* how the run ended, once pc = "done"
    cursorrules0,     \* history: cursorrules when the run started
    cache0,           \* history: cache_files when the run started
    put0,             \* history: put when the run started
    after_clear,      \* history: the run before this one was a cache --clear
                      \* that ended with exit code 0
    put               \* history: per name, the last successful save_to_cache
                      \* whose file has not been removed or truncated since

vars == <<TEMPLATES, cache_dir, cache_files, cursorrules, pc, cmd, resp,
          all_templates, content, cached_content, site, events, exit_code,
          outcome, cursorrules0, cache0, put0, after_clear, put>>

persistent == <<TEMPLATES, cache_dir, cache_files, cursorrules, put>>
history == <<cursorrules0, cache0, put0, after_clear>>
locals == <<resp, all_templates, content, cached_content, site>>

Cmd(op, hasName, name, hasUrl, force, no_cache, clear) ==
    [op |-> op, hasName |-> hasName, name |-> name, hasUrl |-> hasUrl,
     force |-> force, no_cache |-> no_cache, clear |-> clear]

NoCmd == Cmd("none", FALSE, "python", FALSE, FALSE, FALSE, FALSE)

Idle == pc \in {"idle", "done"}

\* raise typer.Exit(code) / return from the command / an uncaught exception
Exit(code, how) ==
    /\ pc' = "done"
    /\ exit_code' = code
    /\ outcome' = how

\* The command goes on: there is no exit status yet.
Goto(label) ==
    /\ pc' = label
    /\ exit_code' = -1
    /\ outcome' = "running"

\* An uncaught exception in `where`: Python prints the traceback and the
\* process exits with status 1.
Crash(where) == Exit(1, where)

CrashOutcomes == {"crash_get_registry", "crash_render", "crash_lookup",
                  "crash_load"}

Log(es) == events' = events \o es

\* A new process: fresh locals, the persistent state as it is.
Begin(c, ev) ==
    /\ Idle
    /\ cmd' = c
    /\ resp' = NoResp
    /\ all_templates' = EmptyDict
    /\ content' = None
    /\ cached_content' = None
    /\ site' = "none"
    /\ events' = ev
    /\ cursorrules0' = cursorrules
    /\ cache0' = cache_files
    /\ put0' = put
    /\ after_clear' = (pc = "done" /\ cmd.op = "cache" /\ cmd.clear
                       /\ exit_code = 0)

Exists(f) == f.st # "absent"

\* Entries of the history variable put: the text saved and the --no-cache
\* flag of the run that saved it.
NoPut == [some |-> FALSE, text |-> <<>>, no_cache |-> FALSE]
Put(t, no_cache) == [some |-> TRUE, text |-> t, no_cache |-> no_cache]

(***************************************************************************)
(* Commands: entry                                                         *)
(***************************************************************************)

\* list(), line 186
list ==
    /\ Begin(Cmd("list", FALSE, "python", FALSE, FALSE, FALSE, FALSE), <<>>)
    /\ Goto("get_registry")
    /\ UNCHANGED persistent

\* install(), lines 246-264: argument validation and mode selection
install ==
    \E hasName, hasUrl, force, no_cache \in BOOLEAN :
    \E name \in (IF hasName THEN Names ELSE {NoCmd.name}) :
        /\ Begin(Cmd("install", hasName, name, hasUrl, force, no_cache, FALSE), <<>>)
        /\ UNCHANGED persistent
        /\ IF hasUrl /\ hasName THEN Exit(1, "usage")
           ELSE IF ~hasUrl /\ ~hasName THEN Exit(1, "usage")
           ELSE IF hasUrl THEN Goto("url_download")
           ELSE Goto("get_registry")

\* show(), line 359
show ==
    \E name \in Names :
        /\ Begin(Cmd("show", TRUE, name, FALSE, FALSE, FALSE, FALSE), <<>>)
        /\ Goto("get_registry")
        /\ UNCHANGED persistent

(***************************************************************************)
(* Registry                                                                *)
(***************************************************************************)

\* The call of get_registry() at lines 186, 289, 359, with an answer of RS.
fetch_registry(RS) ==
    /\ pc = "get_registry"
    /\ \E r \in RS :
        LET g == get_registry(TEMPLATES, r) IN
        /\ resp' = r
        /\ Log(<<"registry_fetch">>)
        /\ IF g.exc # "none"
           THEN Crash("crash_get_registry") /\ UNCHANGED all_templates
           ELSE all_templates' = g.d /\ Goto("lookup")
    /\ UNCHANGED <<cmd, content, cached_content, site>>
    /\ UNCHANGED <<persistent, history>>

\* list(), lines 199-213: template["name"] of a non-object raises TypeError
list_render ==
    /\ pc = "lookup"
    /\ cmd.op = "list"
    /\ IF \E k \in DOMAIN all_templates : ~all_templates[k].isdict
       THEN Crash("crash_render")
       ELSE Exit(0, "listed")
    /\ UNCHANGED <<cmd, events, locals, persistent, history>>

\* Mutant of lookup: the cache is consulted for every descriptor, also one
\* that carries its content.
lookup_cache_for_all ==
    /\ pc = "lookup"
    /\ cmd.op \in {"install", "show"}
    /\ UNCHANGED <<cmd, events, resp, all_templates, cached_content>>
    /\ UNCHANGED <<persistent, history>>
    /\ IF cmd.name \notin DOMAIN all_templates
       THEN Exit(1, "notfound") /\ UNCHANGED <<content, site>>
       ELSE LET template == all_templates[cmd.name] IN
            IF ~template.isdict
            THEN Crash("crash_lookup") /\ UNCHANGED <<content, site>>
            ELSE IF cmd.op = "install" /\ cmd.no_cache
                 THEN Goto("download") /\ UNCHANGED <<content, site>>
                 ELSE /\ Goto("load_exists")
                      /\ site' = (IF cmd.op = "install" THEN "first" ELSE "show")
                      /\ UNCHANGED content

\* Mutant of lookup: --no-cache is ignored and the cache is read first.
lookup_ignores_no_cache ==
    /\ pc = "lookup"
    /\ cmd.op \in {"install", "show"}
    /\ UNCHANGED <<cmd, events, resp, all_templates, cached_content>>
    /\ UNCHANGED <<persistent, history>>
    /\ IF cmd.name \notin DOMAIN all_templates
       THEN Exit(1, "notfound") /\ UNCHANGED <<content, site>>
       ELSE LET template == all_templates[cmd.name] IN
            IF ~template.isdict
            THEN Crash("crash_lookup") /\ UNCHANGED <<content, site>>
            ELSE IF template.hasUrl
            THEN /\ Goto("load_exists")
                 /\ site' = (IF cmd.op = "install" THEN "first" ELSE "show")
                 /\ UNCHANGED content
            ELSE IF template.hasContent
            THEN /\ content' = Some(template.content)
                 /\ Goto(IF cmd.op = "install" THEN "write_check" ELSE "display")
                 /\ UNCHANGED site
            ELSE Crash("crash_lookup") /\ UNCHANGED <<content, site>>

\* install(), lines 291-333, and show(), lines 361-389: the name is looked up
\* and the descriptor decides between cache, download and embedded content.
lookup ==
    /\ pc = "lookup"
    /\ cmd.op \in {"install", "show"}
    /\ UNCHANGED <<cmd, events, resp, all_templates, cached_content>>
    /\ UNCHANGED <<persistent, history>>
    /\ IF cmd.name \notin DOMAIN all_templates
       THEN Exit(1, "notfound") /\ UNCHANGED <<content, site>>
       ELSE LET template == all_templates[cmd.name] IN
            IF ~template.isdict
            THEN Crash("crash_lookup") /\ UNCHANGED <<content, site>>
            ELSE IF template.hasUrl
            THEN IF cmd.op = "install" /\ cmd.no_cache
                 THEN Goto("download") /\ UNCHANGED <<content, site>>
                 ELSE /\ Goto("load_exists")
                      /\ site' = (IF cmd.op = "install" THEN "first" ELSE "show")
                      /\ UNCHANGED content
            ELSE IF template.hasContent
            THEN /\ content' = Some(template.content)
                 /\ Goto(IF cmd.op = "install" THEN "write_check" ELSE "display")
                 /\ UNCHANGED site
            ELSE Crash("crash_lookup") /\ UNCHANGED <<content, site>>

(***************************************************************************)
(* Cache store                                                             *)
(***************************************************************************)

\* Mutant of after_load: a fallback read that finds nothing goes on to the
\* installer instead of exiting.
after_load_no_exit(val) ==
    /\ cached_content' = val
    /\ IF Truthy(val)
       THEN /\ content' = val
            /\ Goto(IF site = "show" THEN "display" ELSE "write_check")
       ELSE /\ UNCHANGED content
            /\ Goto(IF site = "fallback" THEN "write_check" ELSE "download")

\* What the caller does with the value of load_from_cache:
\*   lines 310-316 (site "first"), 324-330 ("fallback"), 376-380 ("show").
after_load(val) ==
    /\ cached_content' = val
    /\ IF Truthy(val)
       THEN /\ content' = val
            /\ Goto(IF site = "show" THEN "display" ELSE "write_check")
       ELSE /\ UNCHANGED content
            /\ IF site = "fallback" THEN Exit(1, "netfail")
               ELSE Goto("download")

\* load_from_cache, lines 68-69 and 74: cache_path.exists()
load_exists ==
    /\ pc = "load_exists"
    /\ Log(<<"cache_read">>)
    /\ IF Exists(cache_files[cmd.name])
       THEN Goto("load_read") /\ UNCHANGED <<content, cached_content>>
       ELSE after_load(None)
    /\ UNCHANGED <<cmd, resp, all_templates, site, persistent, history>>

\* Mutant of read_text: a file that is gone by now raises to the caller.
read_text_missing_raises(f) ==
    CASE f.st = "text" -> [exc |-> "none", val |-> Some(f.text)]
      [] f.st = "undecodable" -> [exc |-> "UnicodeDecodeError", val |-> None]
      [] f.st = "absent" -> [exc |-> "FileNotFoundError", val |-> None]
      [] OTHER -> [exc |-> "none", val |-> None]

\* The value of cache_path.read_text(encoding="utf-8") on file f, lines 70-73:
\* OSError (also: the file is gone by now) is caught and gives None;
\* UnicodeDecodeError is a ValueError and is not caught.
read_text(f) ==
    CASE f.st = "text" -> [exc |-> "none", val |-> Some(f.text)]
      [] f.st = "undecodable" -> [exc |-> "UnicodeDecodeError", val |-> None]
      [] OTHER -> [exc |-> "none", val |-> None]

\* load_from_cache, lines 70-73
load_read ==
    /\ pc = "load_read"
    /\ LET r == read_text(cache_files[cmd.name]) IN
       IF r.exc # "none"
       THEN Crash("crash_load") /\ UNCHANGED <<content, cached_content>>
       ELSE after_load(r.val)
    /\ Log(<<"cache_file_read">>)
    /\ UNCHANGED <<cmd, resp, all_templates, site, persistent, history>>

\* Mutant of download: the fetched text goes to the installer or the display
\* without the cache write.
download_skips_save ==
    /\ pc = "download"
    /\ \/ \E t \in Texts :
            /\ Log(<<"fetch_ok">>)
            /\ content' = Some(t)
            /\ Goto(IF cmd.op = "install" THEN "write_check" ELSE "display")
            /\ UNCHANGED site
       \/ /\ Log(<<"fetch_failed">>)
          /\ UNCHANGED content
          /\ IF cmd.op = "install"
             THEN site' = "fallback" /\ Goto("load_exists")
             ELSE UNCHANGED site /\ Exit(1, "netfail")
    /\ UNCHANGED <<cmd, resp, all_templates, cached_content, persistent, history>>

\* download_from_url(template["url"]), lines 319 and 383, and the handlers at
\* 322 and 385
download ==
    /\ pc = "download"
    /\ \/ \E t \in Texts :
            /\ Log(<<"fetch_ok">>)
            /\ content' = Some(t)
            /\ Goto("save_mkdir")
            /\ UNCHANGED site
       \/ /\ Log(<<"fetch_failed">>)
          /\ UNCHANGED content
          /\ IF cmd.op = "install"
             THEN site' = "fallback" /\ Goto("load_exists")
             ELSE UNCHANGED site /\ Exit(1, "netfail")
    /\ UNCHANGED <<cmd, resp, all_templates, cached_content, persistent, history>>

after_save == Goto(IF cmd.op = "install" THEN "write_check" ELSE "display")

\* save_to_cache, line 86: ensure_cache_dir(); an OSError ends save_to_cache
save_mkdir ==
    /\ pc = "save_mkdir"
    /\ \/ cache_dir' = TRUE /\ Goto("save_write") /\ UNCHANGED events
       \/ /\ ~cache_dir
          /\ UNCHANGED cache_dir
          /\ Log(<<"cache_write_failed">>)
          /\ after_save
    /\ UNCHANGED <<TEMPLATES, cache_files, cursorrules, put>>
    /\ UNCHANGED <<cmd, locals, history>>

\* Mutant of write_text: the text is appended to what the file held.
write_text_append(f, t, how) ==
    CASE how = "ok" -> TextFile(f.text \o t)
      [] how = "write" -> TextFile(<<>>)
      [] OTHER -> f

\* The file after path.write_text(t) on file f.  how = "ok": written;
\* "open": open() raised and the file is as before; "write": the file was
\* opened (and so truncated) and the write raised.
write_text(f, t, how) ==
    CASE how = "ok" -> TextFile(t)
      [] how = "write" -> TextFile(<<>>)
      [] OTHER -> f

WriteOutcomes == {"ok", "open", "write"}

\* Mutant of save_write: the text is written under every name.
save_write_every_key ==
    /\ pc = "save_write"
    /\ IF ~cache_dir
       THEN UNCHANGED <<cache_files, put>> /\ Log(<<"cache_write_failed">>)
       ELSE \E how \in WriteOutcomes :
            /\ cache_files' = [k \in Names |->
                                  write_text(cache_files[k], content.text, how)]
            /\ IF how = "ok"
               THEN /\ put' = [put EXCEPT ![cmd.name] =
                                    Put(content.text, cmd.no_cache)]
                    /\ Log(<<"cache_write">>)
               ELSE /\ put' = (IF how = "write"
                                THEN [put EXCEPT ![cmd.name] = NoPut]
                                ELSE put)
                    /\ Log(<<"cache_write_failed">>)
    /\ after_save
    /\ UNCHANGED <<TEMPLATES, cache_dir, cursorrules>>
    /\ UNCHANGED <<cmd, locals, history>>

\* Mutant of save_write: an OSError of the write is raised to the caller.
save_write_raises ==
    /\ pc = "save_write"
    /\ IF ~cache_dir
       THEN UNCHANGED <<cache_files, put>> /\ Log(<<"cache_write_failed">>)
       ELSE \E how \in WriteOutcomes :
            /\ cache_files' = [cache_files EXCEPT ![cmd.name] =
                                  write_text(@, content.text, how)]
            /\ IF how = "ok"
               THEN /\ put' = [put EXCEPT ![cmd.name] =
                                    Put(content.text, cmd.no_cache)]
                    /\ Log(<<"cache_write">>)
               ELSE /\ put' = (IF how = "write"
                                THEN [put EXCEPT ![cmd.name] = NoPut]
                                ELSE put)
                    /\ Log(<<"cache_write_failed">>)
    /\ IF cache_dir /\ cache_files'[cmd.name] = TextFile(content.text)
       THEN after_save
       ELSE Crash("crash_load")
    /\ UNCHANGED <<TEMPLATES, cache_dir, cursorrules>>
    /\ UNCHANGED <<cmd, locals, history>>

\* save_to_cache, lines 87-91: every OSError is swallowed
save_write ==
    /\ pc = "save_write"
    /\ IF ~cache_dir
       THEN UNCHANGED <<cache_files, put>> /\ Log(<<"cache_write_failed">>)
       ELSE \E how \in WriteOutcomes :
            /\ cache_files' = [cache_files EXCEPT ![cmd.name] =
                                  write_text(@, content.text, how)]
            /\ IF how = "ok"
               THEN /\ put' = [put EXCEPT ![cmd.name] =
                                    Put(content.text, cmd.no_cache)]
                    /\ Log(<<"cache_write">>)
               ELSE /\ put' = (IF how = "write"
                                THEN [put EXCEPT ![cmd.name] = NoPut]
                                ELSE put)
                    /\ Log(<<"cache_write_failed">>)
    /\ after_save
    /\ UNCHANGED <<TEMPLATES, cache_dir, cursorrules>>
    /\ UNCHANGED <<cmd, locals, history>>

(***************************************************************************)
(* Direct-URL install                                                      *)
(***************************************************************************)

\* Mutant of url_download: the downloaded text is written through to the cache.
url_download_caches ==
    /\ pc = "url_download"
    /\ \/ \E t \in Texts :
            /\ Log(<<"fetch_ok">>)
            /\ content' = Some(t)
            /\ Goto("save_mkdir")
       \/ /\ Log(<<"fetch_failed">>)
          /\ UNCHANGED content
          /\ Exit(1, "netfail")
    /\ UNCHANGED <<cmd, resp, all_templates, cached_content, site>>
    /\ UNCHANGED <<persistent, history>>

\* install(), lines 264-274: download_from_url(url)
url_download ==
    /\ pc = "url_download"
    /\ \/ \E t \in Texts :
            /\ Log(<<"fetch_ok">>)
            /\ content' = Some(t)
            /\ Goto("write_check")
       \/ /\ Log(<<"fetch_failed">>)
          /\ UNCHANGED content
          /\ Exit(1, "netfail")
    /\ UNCHANGED <<cmd, resp, all_templates, cached_content, site>>
    /\ UNCHANGED <<persistent, history>>

(***************************************************************************)
(* Installer                                                               *)
(***************************************************************************)

\* Mutant of NeedsConfirm: --force does not suppress the question.
NeedsConfirmIgnoresForce(f, force) == Exists(f)

\* write_cursorrules, line 162: is the user asked?
NeedsConfirm(f, force) == Exists(f) /\ ~force

\* write_cursorrules, lines 159-162
write_check ==
    /\ pc = "write_check"
    /\ IF NeedsConfirm(cursorrules, cmd.force)
       THEN Goto("confirm")
       ELSE Goto("write")
    /\ UNCHANGED <<cmd, events, locals, persistent, history>>

\* Mutant of confirm: the answer is ignored and the file is written.
confirm_ignores_answer ==
    /\ pc = "confirm"
    /\ \E overwrite \in BOOLEAN :
        IF ~overwrite
        THEN Log(<<"prompt", "declined">>) /\ Goto("write")
        ELSE Log(<<"prompt", "confirmed">>) /\ Goto("write")
    /\ UNCHANGED <<cmd, locals, persistent, history>>

\* Mutant of confirm: declining the overwrite is reported as an error.
confirm_cancel_is_error ==
    /\ pc = "confirm"
    /\ \E overwrite \in BOOLEAN :
        IF ~overwrite
        THEN Log(<<"prompt", "declined">>) /\ Exit(1, "cancelled")
        ELSE Log(<<"prompt", "confirmed">>) /\ Goto("write")
    /\ UNCHANGED <<cmd, locals, persistent, history>>

\* write_cursorrules, lines 167-170: typer.confirm and the cancelled exit
confirm ==
    /\ pc = "confirm"
    /\ \E overwrite \in BOOLEAN :
        IF ~overwrite
        THEN Log(<<"prompt", "declined">>) /\ Exit(0, "cancelled")
        ELSE Log(<<"prompt", "confirmed">>) /\ Goto("write")
    /\ UNCHANGED <<cmd, locals, persistent, history>>

\* write_cursorrules, lines 173-179, and the return of install()
write ==
    /\ pc = "write"
    /\ \E how \in WriteOutcomes :
        /\ cursorrules' = write_text(cursorrules, content.text, how)
        /\ IF how = "ok"
           THEN Log(<<"write", "written">>) /\ Exit(0, "installed")
           ELSE Log(<<"write", "write_failed">>) /\ Exit(1, "writeerr")
    /\ UNCHANGED <<TEMPLATES, cache_dir, cache_files, put>>
    /\ UNCHANGED <<cmd, locals, history>>

\* show(), lines 391-400: the panel with the content
display ==
    /\ pc = "display"
    /\ Exit(0, "shown")
    /\ UNCHANGED <<cmd, events, locals, persistent, history>>

(***************************************************************************)
(* cache command                                                           *)
(***************************************************************************)

\* Mutant of cache_clear: the directory is reported removed but the entries stay.
cache_clear_keeps_entries ==
    /\ IF cache_dir
       THEN \/ /\ Begin(Cmd("cache", FALSE, "python", FALSE, FALSE, FALSE, TRUE),
                        <<"rmtree">>)
               /\ UNCHANGED <<cache_dir, cache_files, put>>
               /\ Exit(0, "cleared")
            \/ \E gone \in SUBSET Names :
               /\ Begin(Cmd("cache", FALSE, "python", FALSE, FALSE, FALSE, TRUE),
                        <<"rmtree", "rmtree_failed">>)
               /\ UNCHANGED cache_dir
               /\ cache_files' = [k \in Names |->
                                     IF k \in gone THEN Absent ELSE cache_files[k]]
               /\ put' = [k \in Names |-> IF k \in gone THEN NoPut ELSE put[k]]
               /\ Exit(1, "clearerr")
       ELSE /\ Begin(Cmd("cache", FALSE, "python", FALSE, FALSE, FALSE, TRUE), <<>>)
            /\ UNCHANGED <<cache_dir, cache_files, put>>
            /\ Exit(0, "cleared")
    /\ UNCHANGED <<TEMPLATES, cursorrules>>

\* cache(clear=True), lines 462-473.  shutil.rmtree removes the files and
\* then the directory; when it fails it may already have removed some files.
cache_clear ==
    /\ IF cache_dir
       THEN \/ /\ Begin(Cmd("cache", FALSE, "python", FALSE, FALSE, FALSE, TRUE),
                        <<"rmtree">>)
               /\ cache_dir' = FALSE
               /\ cache_files' = [k \in Names |-> Absent]
               /\ put' = [k \in Names |-> NoPut]
               /\ Exit(0, "cleared")
            \/ \E gone \in SUBSET Names :
               /\ Begin(Cmd("cache", FALSE, "python", FALSE, FALSE, FALSE, TRUE),
                        <<"rmtree", "rmtree_failed">>)
               /\ UNCHANGED cache_dir
               /\ cache_files' = [k \in Names |->
                                     IF k \in gone THEN Absent ELSE cache_files[k]]
               /\ put' = [k \in Names |-> IF k \in gone THEN NoPut ELSE put[k]]
               /\ Exit(1, "clearerr")
       ELSE /\ Begin(Cmd("cache", FALSE, "python", FALSE, FALSE, FALSE, TRUE), <<>>)
            /\ UNCHANGED <<cache_dir, cache_files, put>>
            /\ Exit(0, "cleared")
    /\ UNCHANGED <<TEMPLATES, cursorrules>>

\* cache(clear=False), lines 476-510: the listing changes nothing
cache_info ==
    /\ Begin(Cmd("cache", FALSE, "python", FALSE, FALSE, FALSE, FALSE), <<>>)
    /\ Exit(0, "cacheinfo")
    /\ UNCHANGED persistent

(***************************************************************************)
(* Specifications                                                          *)
(***************************************************************************)

\* The state before the first command: any cache, any destination file.
InitWith(T) ==
    /\ TEMPLATES \in T
    /\ cache_files \in [Names -> CacheFiles]
    /\ cache_dir \in BOOLEAN
    /\ (\E k \in Names : Exists(cache_files[k])) => cache_dir
    /\ cursorrules \in DestFiles
    /\ pc = "idle"
    /\ cmd = NoCmd
    /\ resp = NoResp
    /\ all_templates = EmptyDict
    /\ content = None
    /\ cached_content = None
    /\ site = "none"
    /\ events = <<>>
    /\ exit_code = -1
    /\ outcome = "none"
    /\ cursorrules0 = cursorrules
    /\ cache0 = cache_files
    /\ put0 = [k \in Names |-> NoPut]
    /\ after_clear = FALSE
    /\ put = [k \in Names |-> NoPut]

\* The bundled mapping of the command runs: an inline template, as shipped.
Bundled == {("python" :> Inline(<<1>>))}

\* The registry answers of the command runs.
RunResponses ==
    {NetErr, JsonScalar,
     JsonDict(("react" :> Remote)), JsonDict(("python" :> Remote)),
     JsonDict(("react" :> NeitherD)), JsonDict(("react" :> ScalarD))}

Init == InitWith(Bundled)

Next ==
    \/ list
    \/ install
    \/ show
    \/ cache_clear
    \/ cache_info
    \/ fetch_registry(RunResponses)
    \/ list_render
    \/ lookup
    \/ load_exists
    \/ load_read
    \/ download
    \/ save_mkdir
    \/ save_write
    \/ url_download
    \/ write_check
    \/ confirm
    \/ write
    \/ display

Spec == Init /\ [][Next]_vars

(***************************************************************************)
(* A concurrent process                                                    *)
(***************************************************************************)

\* The steps of another process on the shared cache directory while the run
\* of this process is under way: the file removals and the final rmdir of its
\* shutil.rmtree (cache --clear, line 465), and the mkdir (line 55) and the
\* write_text (line 88) of its install of another name.
OtherEvents == {"other_unlink_own", "other_unlink", "other_rmdir",
                "other_mkdir", "other_write"}

\* They are interleaved with the cache operations of the run, from its first
\* exists check or download to its cache write (what the other process did
\* before is in the initial state, what it does later the run never sees),
\* at most MaxOther of them in one run.
OtherMayStep ==
    /\ pc \in {"load_exists", "load_read", "download", "save_mkdir", "save_write"}
    /\ Cardinality({i \in 1..Len(events) : events[i] \in OtherEvents}) < MaxOther

\* cache(), line 465, in the other process: rmtree removes one file
other_unlink ==
    /\ OtherMayStep
    /\ \E k \in Names :
        /\ Exists(cache_files[k])
        /\ cache_files' = [cache_files EXCEPT ![k] = Absent]
        /\ put' = [put EXCEPT ![k] = NoPut]
        /\ Log(<<IF k = cmd.name THEN "other_unlink_own" ELSE "other_unlink">>)
    /\ UNCHANGED <<TEMPLATES, cache_dir, cursorrules>>
    /\ UNCHANGED <<pc, cmd, locals, exit_code, outcome, history>>

\* cache(), line 465, in the other process: rmtree removes the emptied directory
other_rmdir ==
    /\ OtherMayStep
    /\ cache_dir
    /\ \A k \in Names : ~Exists(cache_files[k])
    /\ cache_dir' = FALSE
    /\ Log(<<"other_rmdir">>)
    /\ UNCHANGED <<TEMPLATES, cache_files, cursorrules, put>>
    /\ UNCHANGED <<pc, cmd, locals, exit_code, outcome, history>>

\* ensure_cache_dir, line 55, in the other process
other_mkdir ==
    /\ OtherMayStep
    /\ ~cache_dir
    /\ cache_dir' = TRUE
    /\ Log(<<"other_mkdir">>)
    /\ UNCHANGED <<TEMPLATES, cache_files, cursorrules, put>>
    /\ UNCHANGED <<pc, cmd, locals, exit_code, outcome, history>>

\* save_to_cache, line 88, in the other process, which installs another name
other_write ==
    /\ OtherMayStep
    /\ cache_dir
    /\ \E k \in Names \ {cmd.name}, t \in Texts, how \in {"ok", "write"} :
        /\ cache_files' = [cache_files EXCEPT ![k] = write_text(@, t, how)]
        /\ put' = [put EXCEPT ![k] = NoPut]
    /\ Log(<<"other_write">>)
    /\ UNCHANGED <<TEMPLATES, cache_dir, cursorrules>>
    /\ UNCHANGED <<pc, cmd, locals, exit_code, outcome, history>>

\* The registry answer of the concurrent runs: a remote template.
ConcurrentResponses == {JsonDict(("react" :> Remote))}

\* One run of install or show, from any cache entry under the remote name
\* and an absent or existing destination, interleaved with the steps of the
\* other process.
InitConcurrent ==
    /\ InitWith(Bundled)
    /\ cursorrules \in {Absent, TextFile(<<>>)}
    /\ cache_files["python"] \in {Absent, TextFile(<<1>>)}

NextConcurrent ==
    \/ pc = "idle" /\ install
    \/ pc = "idle" /\ show
    \/ fetch_registry(ConcurrentResponses)
    \/ lookup
    \/ load_exists
    \/ load_read
    \/ download
    \/ save_mkdir
    \/ save_write
    \/ url_download
    \/ write_check
    \/ confirm
    \/ write
    \/ display
    \/ other_unlink
    \/ other_rmdir
    \/ other_mkdir
    \/ other_write

SpecConcurrent == InitConcurrent /\ [][NextConcurrent]_vars

\* The registry merger alone: `list` runs over every non-empty bundled mapping
\* and every registry answer.
BundledDescs == {Inline(c) : c \in Texts} \cup {Remote}

InitRegistry ==
    /\ InitWith(Dicts(BundledDescs) \ {EmptyDict})
    /\ cache_files = [k \in Names |-> Absent]
    /\ ~cache_dir
    /\ cursorrules = Absent

NextRegistry ==
    \/ list
    \/ fetch_registry(Responses)
    \/ list_render

SpecRegistry == InitRegistry /\ [][NextRegistry]_vars

(***************************************************************************)
(* Properties                                                              *)
(***************************************************************************)

Happened(e) == \E i \in 1..Len(events) : events[i] = e
Count(E) == Cardinality({i \in 1..Len(events) : events[i] \in E})
Fetches == Count({"fetch_ok", "fetch_failed"})

\* get_registry was called in this run and returned (did not raise)
Returned == resp # NoResp /\ outcome # "crash_get_registry"

\* install <name> or show <name>
ByName == cmd.op \in {"install", "show"} /\ cmd.hasName /\ ~cmd.hasUrl
\* install --url
ByUrl == cmd.op = "install" /\ cmd.hasUrl /\ ~cmd.hasName

\* the run resolved the name to a descriptor carrying a url
ResolvesRemote ==
    /\ ByName
    /\ Returned
    /\ cmd.name \in DOMAIN all_templates
    /\ all_templates[cmd.name].isdict
    /\ all_templates[cmd.name].hasUrl

\* the content has been decided: the run is at or past the installer/display
Resolved == pc \in {"write_check", "confirm", "write", "display"}
            \/ (pc = "done" /\ outcome \in {"installed", "cancelled",
                                            "writeerr", "shown"})

\* C1: when the registry fetch answers {"templates": R} with R a mapping,
\* get_registry returns M with keys(M) = keys(B) \cup keys(R), M[k] = R[k] on
\* keys(R) (remote wins on collision) and M[k] = B[k] on the other keys.
C1_RemoteWins ==
    (resp.kind = "json" /\ resp.shape = "has" /\ resp.t = "dict") =>
        /\ Returned
        /\ DOMAIN all_templates = DOMAIN TEMPLATES \cup DOMAIN resp.map
        /\ \A k \in DOMAIN resp.map : all_templates[k] = resp.map[k]
        /\ \A k \in DOMAIN TEMPLATES \ DOMAIN resp.map :
              all_templates[k] = TEMPLATES[k]

\* a collision with differing descriptors, next to a bundled-only key
C1_Witness ==
    /\ resp.t = "dict"
    /\ pc = "lookup"
    /\ \E k \in DOMAIN TEMPLATES \cap DOMAIN resp.map :
          resp.map[k] # TEMPLATES[k]
    /\ DOMAIN TEMPLATES \ DOMAIN resp.map # {}

\* The remote document is an object carrying a "templates" mapping of
\* descriptors (objects).
ValidDocument(r) ==
    /\ r.kind = "json"
    /\ r.shape = "has"
    /\ r.t = "dict"
    /\ \A k \in DOMAIN r.map : r.map[k].isdict

\* C2: when the registry fetch is unavailable (network error, non-success
\* status, invalid JSON, or JSON that is not an object carrying a "templates"
\* mapping of descriptors), get_registry raises nothing and returns exactly
\* the bundled mapping.
C2_UnavailableGivesBundled ==
    (resp # NoResp /\ ~ValidDocument(resp)) =>
        /\ outcome # "crash_get_registry"
        /\ all_templates = TEMPLATES

\* The entries of a "templates" array, as the mapping they spell (a later
\* pair of the same key wins).
PairsOf(items) ==
    LET idx(k) == {i \in 1..Len(items) : items[i].e = "pair" /\ items[i].k = k}
        last(k) == CHOOSE i \in idx(k) : \A j \in idx(k) : j <= i
    IN [k \in {n \in Names : idx(n) # {}} |-> items[last(k)].v]

\* Every entry of the document can be overlaid.
WholeDocument(r) ==
    \/ r.t = "dict"
    \/ r.t = "list" /\ \A i \in 1..Len(r.items) : r.items[i].e = "pair"
    \/ r.t = "str" /\ r.slen = 0

EntriesOf(r) == IF r.t = "dict" THEN r.map ELSE PairsOf(r.items)

\* C3: the registry get_registry returns is either exactly the bundled
\* mapping or the bundled mapping overlaid with every entry of the remote
\* document, never with only some of them.
C3_AllOrNothing ==
    Returned =>
        \/ all_templates = TEMPLATES
        \/ /\ resp.shape = "has"
           /\ WholeDocument(resp)
           /\ all_templates =
                [k \in DOMAIN TEMPLATES \cup DOMAIN EntriesOf(resp) |->
                    IF k \in DOMAIN EntriesOf(resp) THEN EntriesOf(resp)[k]
                    ELSE TEMPLATES[k]]

\* C4: once a run with the cache enabled has fetched text T (the empty text
\* included) and written it through to the cache under K, and no clear
\* followed, a later install without --no-cache or show of K, K resolving to a
\* Remote descriptor, makes no content fetch and resolves to exactly T.
C4_WriteThrough ==
    (/\ ResolvesRemote
     /\ ~cmd.no_cache
     /\ put0[cmd.name].some
     /\ ~put0[cmd.name].no_cache) =>
        /\ Fetches = 0
        /\ Resolved => content = Some(put0[cmd.name].text)

\* C5: when the cache holds a text for K (whatever the text) and the content
\* fetch of install K --no-cache fails, the run resolves to the cached text,
\* does not end with the network failure, and an install that completes
\* leaves that text in the destination.
C5_FallbackDespiteBypass ==
    (/\ cmd.op = "install" /\ ByName /\ cmd.no_cache
     /\ Happened("fetch_failed")
     /\ cache0[cmd.name].st = "text"
     /\ pc = "done") =>
        /\ outcome # "netfail"
        /\ content = Some(cache0[cmd.name].text)
        /\ outcome = "installed" =>
              cursorrules = TextFile(cache0[cmd.name].text)

\* C6: for a name resolved by a content fetch (a Remote descriptor) with no
\* cache entry, a failed fetch ends install and show with the network
\* failure, exit code 1, the destination file untouched and still no cache
\* entry for the name.
C6_NoFallbackFailure ==
    (ByName /\ Happened("fetch_failed") /\ ~Exists(cache0[cmd.name])) =>
        /\ pc \in {"load_exists", "done"}
        /\ pc = "done" => (outcome = "netfail" /\ exit_code = 1)
        /\ cursorrules = cursorrules0
        /\ ~Exists(cache_files[cmd.name])
        /\ ~Happened("write")

C6_Witness ==
    /\ ByName
    /\ cmd.op = "install"
    /\ Happened("fetch_failed")
    /\ ~Exists(cache0[cmd.name])
    /\ Exists(cursorrules0)
    /\ pc = "done"

\* C7: when the destination exists, force is false and the user declines,
\* the destination is as before the run and the run ends cancelled with exit
\* code 0, for installs by name and by URL; and a destination that existed at
\* the start is only written with force or after a positive answer.
C7_OverwriteProtection ==
    /\ Happened("declined") =>
          /\ pc = "done"
          /\ outcome = "cancelled"
          /\ exit_code = 0
          /\ cursorrules = cursorrules0
          /\ ~Happened("write")
    /\ (cmd.op = "install" /\ Exists(cursorrules0) /\ ~cmd.force
        /\ (pc = "write" \/ Happened("write"))) => Happened("confirmed")

C7_Witness ==
    /\ ByUrl
    /\ Happened("declined")
    /\ Exists(cursorrules0)
    /\ content # Some(cursorrules0.text)

\* C8: an install with force that writes content C leaves the destination
\* holding exactly C whatever it held before, also when it already held C
\* from an earlier install, and a run with force never asks for confirmation.
C8_ForcedIdempotent ==
    (cmd.op = "install" /\ cmd.force) =>
        /\ ~Happened("prompt")
        /\ pc # "confirm"
        /\ outcome = "installed" => cursorrules = TextFile(content.text)

\* the second forced install of the same non-empty content
C8_Witness ==
    /\ cmd.op = "install"
    /\ cmd.force
    /\ outcome = "installed"
    /\ cursorrules0 = TextFile(content.text)
    /\ Len(content.text) > 0

\* C9: load_from_cache never raises, whatever the cache file is (absent,
\* unreadable, not decodable as text), so an install by name that reads the
\* cache and finds no text goes on to the content fetch.
C9_CacheReadNeverAborts ==
    /\ outcome # "crash_load"
    /\ (cmd.op = "install" /\ ResolvesRemote /\ ~cmd.no_cache
        /\ cache0[cmd.name].st # "text" /\ pc = "done") => Fetches = 1

\* C10: an install by URL makes exactly one content fetch, no registry fetch,
\* no cache read and no cache write; a failed fetch ends it with exit code 1
\* and the destination as before, whatever the cache holds.
C10_UrlInstallNoCache ==
    ByUrl =>
        /\ ~Happened("registry_fetch")
        /\ ~Happened("cache_read")
        /\ ~Happened("cache_write")
        /\ cache_files = cache0
        /\ Fetches = (IF pc = "url_download" THEN 0 ELSE 1)
        /\ Happened("fetch_failed") =>
              /\ pc = "done"
              /\ outcome = "netfail"
              /\ exit_code = 1
              /\ cursorrules = cursorrules0

C10_Witness ==
    /\ ByUrl
    /\ Happened("fetch_failed")
    /\ \E k \in Names : cache_files[k].st = "text" /\ Len(cache_files[k].text) > 0
    /\ Exists(cursorrules)

\* the run resolved the name to a descriptor with embedded content and no url
ResolvesInline ==
    /\ ByName
    /\ Returned
    /\ cmd.name \in DOMAIN all_templates
    /\ all_templates[cmd.name].isdict
    /\ ~all_templates[cmd.name].hasUrl
    /\ all_templates[cmd.name].hasContent

\* C11: for a name whose resolved descriptor is Inline, install and show use
\* exactly the embedded text: no content fetch, no cache read, no cache
\* write, whatever --no-cache says and whatever the cache holds; with the
\* registry fetch failing, an install of a bundled inline name that completes
\* leaves exactly the bundled content in the destination.
C11_InlineUsesEmbedded ==
    ResolvesInline =>
        /\ Fetches = 0
        /\ ~Happened("cache_read")
        /\ ~Happened("cache_write")
        /\ cache_files = cache0
        /\ pc \in {"lookup", "write_check", "confirm", "write", "display", "done"}
        /\ pc # "lookup" => content = Some(all_templates[cmd.name].content)
        /\ Happened("written") =>
              cursorrules = TextFile(all_templates[cmd.name].content)
        /\ (resp = NetErr /\ Happened("written")) =>
              cursorrules = TextFile(TEMPLATES[cmd.name].content)

\* no network, --no-cache given, and the cache holds another text under the name
C11_Witness ==
    /\ ResolvesInline
    /\ cmd.op = "install"
    /\ cmd.no_cache
    /\ resp = NetErr
    /\ Happened("written")
    /\ cache_files[cmd.name].st = "text"
    /\ Len(cache_files[cmd.name].text) > 0
    /\ cache_files[cmd.name].text # TEMPLATES[cmd.name].content

\* exactly one of url and content
OneSource(d) == d.isdict /\ (d.hasUrl # d.hasContent)

\* C12: every descriptor of every registry that get_registry returns has
\* exactly one source, inline content or a remote url, never both and never
\* neither.
C12_ExactlyOneSource ==
    Returned => \A k \in DOMAIN all_templates : OneSource(all_templates[k])

\* C13: an install ends with exit code 0 exactly when the content was written
\* to the destination or the user declined the overwrite, and with exit code
\* 1 otherwise (both name and URL, neither, name not in the registry, failed
\* fetch without fallback, write error); a name that is not found causes no
\* content fetch, no cache change and no destination change.
C13_InstallExitCodes ==
    (cmd.op = "install" /\ pc = "done") =>
        /\ exit_code \in {0, 1}
        /\ exit_code = 0 <=> (Happened("written") \/ Happened("declined"))
        /\ (cmd.hasName = cmd.hasUrl) => (exit_code = 1 /\ events = <<>>)
        /\ (ByName /\ Returned /\ cmd.name \notin DOMAIN all_templates) =>
              /\ exit_code = 1
              /\ outcome = "notfound"
              /\ Fetches = 0
              /\ cache_files = cache0
              /\ cursorrules = cursorrules0
        /\ Happened("write_failed") => exit_code = 1
        /\ (Happened("fetch_failed") /\ ~Truthy(cached_content)) => exit_code = 1

\* a name that is not found, with a cache entry and a destination in place
C13_Witness ==
    /\ cmd.op = "install"
    /\ pc = "done"
    /\ outcome = "notfound"
    /\ Exists(cache_files[cmd.name])
    /\ Exists(cursorrules)

\* C14 (as stated): a cache entry differs from what it was when the run
\* started only if the run is a cache --clear and the entry is gone, or the
\* run resolved a Remote descriptor under that very name, fetched its content
\* successfully, and the entry now equals the fetched body.
C14_CacheLifecycle ==
    \A k \in Names :
        cache_files[k] # cache0[k] =>
            \/ cmd.op = "cache" /\ cmd.clear /\ cache_files[k] = Absent
            \/ /\ k = cmd.name
               /\ ResolvesRemote
               /\ Happened("fetch_ok")
               /\ cache_files[k] = TextFile(content.text)

\* C14 (amended): as above, except that the entry equals the fetched body
\* when the cache write completed and is left truncated when the write failed
\* after the file had been opened; in no other case does an entry change.
C14_CacheLifecycleAmended ==
    \A k \in Names :
        cache_files[k] # cache0[k] =>
            \/ cmd.op = "cache" /\ cmd.clear /\ cache_files[k] = Absent
            \/ /\ k = cmd.name
               /\ ResolvesRemote
               /\ Happened("fetch_ok")
               /\ \/ /\ Happened("cache_write")
                     /\ cache_files[k] = TextFile(content.text)
                  \/ /\ Happened("cache_write_failed")
                     /\ cache_files[k] = TextFile(<<>>)

\* an entry replaced by the fetched body while another name's entry stays
C14_Witness ==
    /\ ResolvesRemote
    /\ Happened("cache_write")
    /\ Exists(cache0[cmd.name])
    /\ cache_files[cmd.name] # cache0[cmd.name]
    /\ \E k \in Names \ {cmd.name} :
          Exists(cache0[k]) /\ cache_files[k] = cache0[k]

PastWriteCheck ==
    \/ pc \in {"confirm", "write"}
    \/ pc = "done" /\ outcome \in {"installed", "cancelled", "writeerr"}

\* C16: an install writes the destination at most once and asks at most
\* once; it asks if and only if the destination exists and --force was not
\* given; the question comes before the write; and a write that completes
\* leaves exactly the resolved content, replacing what the file held.
C16_InstallerEffects ==
    cmd.op = "install" =>
        /\ Count({"write"}) <= 1
        /\ Count({"prompt"}) <= 1
        /\ Happened("prompt") => (Exists(cursorrules0) /\ ~cmd.force)
        /\ PastWriteCheck =>
              ((Happened("prompt") \/ pc = "confirm")
                  <=> (Exists(cursorrules0) /\ ~cmd.force))
        /\ \A i, j \in 1..Len(events) :
              (events[i] = "prompt" /\ events[j] = "write") => i < j
        /\ ~Happened("write") => cursorrules = cursorrules0
        /\ Happened("written") =>
              /\ content.some
              /\ cursorrules = TextFile(content.text)

\* an existing file with other text, the question answered yes, the write done
C16_Witness ==
    /\ cmd.op = "install"
    /\ cursorrules0.st = "text"
    /\ Len(cursorrules0.text) > 0
    /\ Happened("confirmed")
    /\ Happened("written")
    /\ cursorrules # cursorrules0

\* a cache write of this run failed and the run went on
CacheWriteFailed == Happened("cache_write_failed")

\* the run continues after save_to_cache with the fetched text
ContinuesAfterSave ==
    /\ Happened("fetch_ok")
    /\ content.some
    /\ pc \in {"write_check", "confirm", "write", "display", "done"}
    /\ outcome \in {"running", "installed", "cancelled", "writeerr", "shown"}
    /\ Happened("written") => cursorrules = TextFile(content.text)
    /\ (pc = "done" /\ cmd.op = "show") => outcome = "shown"

\* C17 (as stated): when persisting the fetched text fails, the error is
\* swallowed, the run continues with the fetched text to the outcomes it
\* has after a successful cache write, and the entry the cache held for the
\* name before is what a later load_from_cache reads.
C17_BestEffortPut ==
    CacheWriteFailed =>
        /\ ContinuesAfterSave
        /\ cache0[cmd.name].st = "text" =>
              read_text(cache_files[cmd.name]) = read_text(cache0[cmd.name])

\* C17 (amended): as above, but the previous entry is only kept when the
\* failure came before the cache file was opened; a failure after that leaves
\* the entry truncated.  No other name's entry is touched.
C17_BestEffortPutAmended ==
    CacheWriteFailed =>
        /\ ContinuesAfterSave
        /\ \/ cache_files[cmd.name] = cache0[cmd.name]
           \/ cache_files[cmd.name] = TextFile(<<>>)
        /\ \A k \in Names \ {cmd.name} : cache_files[k] = cache0[k]

\* a failed cache write that kept the previous entry, the install completed
C17_Witness ==
    /\ CacheWriteFailed
    /\ cmd.op = "install"
    /\ cache0[cmd.name].st = "text"
    /\ Len(cache0[cmd.name].text) > 0
    /\ cache_files[cmd.name] = cache0[cmd.name]
    /\ cache0[cmd.name].text # content.text
    /\ outcome = "installed"

\* C18: a cache --clear that succeeds leaves no entry under any name, so the
\* next resolution of a Remote name has no cache hit: it fetches, and it has
\* no fallback when the fetch fails; clearing when the cache directory does
\* not exist changes nothing and exits 0; a removal that fails exits 1.
C18_Clear ==
    /\ (cmd.op = "cache" /\ cmd.clear /\ pc = "done") =>
          /\ exit_code = 0 =>
                /\ ~cache_dir
                /\ \A k \in Names : ~Exists(cache_files[k])
          /\ ~Happened("rmtree") =>
                /\ exit_code = 0
                /\ cache_files = cache0
          /\ Happened("rmtree_failed") <=> exit_code = 1
          /\ exit_code \in {0, 1}
    /\ (after_clear /\ ResolvesRemote) =>
          /\ \A k \in Names : ~Exists(cache0[k])
          /\ pc # "load_read"
          /\ cached_content = None
          /\ Resolved => Happened("fetch_ok")
          /\ (Happened("fetch_failed") /\ pc = "done") =>
                (outcome = "netfail" /\ exit_code = 1)

\* the run after a successful clear resolves a Remote name, its fetch fails
C18_Witness ==
    /\ after_clear
    /\ ResolvesRemote
    /\ Happened("fetch_failed")
    /\ pc = "done"
    /\ exit_code = 1

\* C19: interleaved with the cache steps of another process (a cache --clear,
\* an install of another name), a run that resolves a Remote name never
\* aborts because of them: a cache file removed between the exists check and
\* the read is a miss, a cache directory removed between mkdir and the file
\* write makes the put fail silently, the run only ends in error when its own
\* content fetch failed (or the entry it started with was undecodable), and
\* it never alters the entry of another name.
C19_NoAbortFromOthers ==
    ResolvesRemote =>
        /\ outcome \in CrashOutcomes =>
              /\ outcome = "crash_load"
              /\ cache0[cmd.name] = Undecodable
              /\ cache_files[cmd.name] = Undecodable
        /\ \A i \in 1..(Len(events) - 2) :
              (/\ events[i] = "cache_read"
               /\ events[i + 1] = "other_unlink_own"
               /\ events[i + 2] = "cache_file_read") =>
                  /\ cached_content = None
                  /\ outcome \notin CrashOutcomes
                  /\ Resolved => Happened("fetch_ok")
        /\ (pc = "save_write" /\ ~cache_dir) => events[Len(events)] = "other_rmdir"
        /\ Happened("cache_write_failed") => ContinuesAfterSave
        /\ (pc = "done" /\ exit_code = 1) =>
              \/ Happened("fetch_failed")
              \/ Happened("write_failed")
              \/ outcome = "crash_load"
        /\ (~Happened("other_unlink") /\ ~Happened("other_write")) =>
              \A k \in Names \ {cmd.name} : cache_files[k] = cache0[k]

\* the entry was removed between the exists check and the read, the content
\* was fetched instead, the directory was removed before the cache write,
\* and the install completed
C19_Witness ==
    /\ ResolvesRemote
    /\ cmd.op = "install"
    /\ \E i \in 1..(Len(events) - 2) :
          /\ events[i] = "cache_read"
          /\ events[i + 1] = "other_unlink_own"
          /\ events[i + 2] = "cache_file_read"
    /\ \E i \in 1..(Len(events) - 1) :
          events[i] = "other_rmdir" /\ events[i + 1] = "cache_write_failed"
    /\ Len(cache0[cmd.name].text) > 0
    /\ cache0[cmd.name].st = "text"
    /\ Happened("written")

\* in a by-name install of a Remote name the content fetch and the cache
\* write-through come before the question and before the destination write
FetchAndPutBeforeInstaller ==
    /\ \A i, j \in 1..Len(events) :
          (/\ events[i] \in {"fetch_ok", "fetch_failed", "cache_read",
                             "cache_write", "cache_write_failed"}
           /\ events[j] \in {"prompt", "write"}) => i < j
    /\ (Happened("fetch_ok") /\ PastWriteCheck) =>
          (Happened("cache_write") \/ Happened("cache_write_failed"))

\* C20 (as stated): in a by-name install of a Remote name the content fetch
\* and the cache write-through are complete before the question is asked and
\* before the destination is written; an install that ends cancelled or with
\* a destination write error leaves the destination as it was and, having
\* fetched, leaves the fetched text in the cache entry of the name.
C20_FetchBeforeInstaller ==
    (cmd.op = "install" /\ ResolvesRemote) =>
        /\ FetchAndPutBeforeInstaller
        /\ (pc = "done" /\ outcome \in {"cancelled", "writeerr"}) =>
              /\ cursorrules = cursorrules0
              /\ Happened("fetch_ok") =>
                    cache_files[cmd.name] = TextFile(content.text)

\* C20 (amended): the order is as stated; a cancelled install leaves the
\* destination as it was, one that ends with a write error leaves it as it
\* was or truncated; in both the cache entry holds the fetched text when the
\* cache write completed.
C20_FetchBeforeInstallerAmended ==
    (cmd.op = "install" /\ ResolvesRemote) =>
        /\ FetchAndPutBeforeInstaller
        /\ (pc = "done" /\ outcome = "cancelled") => cursorrules = cursorrules0
        /\ (pc = "done" /\ outcome = "writeerr") =>
              (cursorrules = cursorrules0 \/ cursorrules = TextFile(<<>>))
        /\ (pc = "done" /\ outcome \in {"cancelled", "writeerr"}
                /\ Happened("cache_write")) =>
              cache_files[cmd.name] = TextFile(content.text)

\* a cancelled install that fetched and replaced the cache entry
C20_Witness ==
    /\ cmd.op = "install"
    /\ ResolvesRemote
    /\ outcome = "cancelled"
    /\ Happened("fetch_ok")
    /\ Happened("cache_write")
    /\ cache_files[cmd.name] # cache0[cmd.name]
    /\ Len(cursorrules0.text) > 0
    /\ cursorrules = cursorrules0

====
